---- MODULE Spec2Model ----
(***************************************************************************)
(* The schema + records mini-database of NoteFlix: Schemas/db.js (the      *)
(* IndexedDB adapter), Schemas/schema.js (schema modal, save, rename       *)
(* cascade, delete flow) and Schemas/records.js (record form, validation,  *)
(* save, relation labels).  Every asynchronous handler is a small process  *)
(* whose steps are the store transactions it awaits.                       *)
(***************************************************************************)
EXTENDS Integers, Sequences, FiniteSets, TLC

\* Date.now() is modelled as a counter that ticks once per record save; a run
\* performs at most MaxClock record saves (and so hands out at most MaxClock ids).
MaxClock == 2

(***************************************************************************)
(* Values                                                                  *)
(***************************************************************************)
Null == "null"

\* A JavaScript value held in a form field or a data map: a string, a boolean
\* or undefined.  str is what String(v) gives.
StrV(s) == [tag |-> "str", str |-> s]
BoolV(b) == [tag |-> "bool", str |-> IF b THEN "true" ELSE "false"]
Undefined == [tag |-> "undef", str |-> "undefined"]

\* !!v
Truthy(v) ==
  CASE v.tag = "str" -> v.str # ""
    [] v.tag = "bool" -> v.str = "true"
    [] OTHER -> FALSE

\* String.prototype.trim on the strings of the model
Trim(s) ==
  CASE s = " " -> ""
    [] s = " A" -> "A"
    [] OTHER -> s

\* String(id) of a record id, as the relation picker's option.value holds it
DigitStrings == <<"1", "2", "3", "4", "5">>
IdStr(id) == DigitStrings[id]

\* ToNumber(v) as the == of `rec.id == v` applies it; NaN is -1
ToNumber(v) ==
  CASE v.tag = "bool" -> IF v.str = "true" THEN 1 ELSE 0
    [] v.tag = "undef" -> -1
    [] v.str = "" \/ v.str = " " -> 0
    [] \E i \in 1..Len(DigitStrings) : DigitStrings[i] = v.str ->
         CHOOSE i \in 1..Len(DigitStrings) : DigitStrings[i] = v.str
    [] OTHER -> -1

\* rec.id == v (loose equality of a number with a stored value)
LooseEq(id, v) == ToNumber(v) = id

(***************************************************************************)
(* Schemas and properties                                                  *)
(***************************************************************************)
NameRank(n) == IF n = "A" THEN 1 ELSE IF n = "B" THEN 2 ELSE 0

Prop(n, t, m, rel) == [name |-> n, type |-> t, isMandatory |-> m, relatedSchema |-> rel]

\* what the user types into #schemaName
RawNames == {"", " ", "A", " A", "B"}

\* the property rows the user can leave in #propList
TitleRow == Prop("Title", "Title", TRUE, Null)
NoteRow == Prop("Note", "Text", FALSE, Null)
RefRow == Prop("Ref", "Relation", FALSE, "A")
BlankRow == Prop("", "Text", FALSE, Null)
DoneRow == Prop("Done", "Checkbox", TRUE, Null)

\* what the user types into a text field of the record form
TextInputs == {"", " ", "x"}

\* rows.map(...).filter(p => p.name)
NamedRows(rows) == LET Named(p) == p.name # "" IN SelectSeq(rows, Named)

NoSchema == [name |-> Null, properties |-> <<>>]

(***************************************************************************)
(* Data maps: a JavaScript object, keys in insertion order                 *)
(***************************************************************************)
HasKey(data, k) == \E i \in 1..Len(data) : data[i].k = k

\* data[k]
Get(data, k) ==
  IF HasKey(data, k)
  THEN data[CHOOSE i \in 1..Len(data) : data[i].k = k].v
  ELSE Undefined

\* data[k] = v
Set(data, k, v) ==
  IF HasKey(data, k)
  THEN [i \in 1..Len(data) |-> IF data[i].k = k THEN [k |-> k, v |-> v] ELSE data[i]]
  ELSE Append(data, [k |-> k, v |-> v])

Keys(data) == {data[i].k : i \in 1..Len(data)}

\* data[Object.keys(data)[0]]
FirstValue(data) == IF data = <<>> THEN Undefined ELSE data[1].v

(***************************************************************************)
(* db.js: the two object stores                                            *)
(***************************************************************************)
\* faulty variant: the properties of the stored entry that the new list does not name
\* are kept
SchemaPut_keepOld(tbl, schema) ==
  LET old == IF \E s \in tbl : s.name = schema.name
             THEN (CHOOSE s \in tbl : s.name = schema.name).properties
             ELSE <<>>
      Dropped(p) == \A i \in 1..Len(schema.properties) : schema.properties[i].name # p.name
  IN {s \in tbl : s.name # schema.name} \cup
     {[name |-> schema.name, properties |-> schema.properties \o SelectSeq(old, Dropped)]}

\* schemaStore.put: the store's keyPath is name, so put replaces the entry of that name
SchemaPut(tbl, schema) == {s \in tbl : s.name # schema.name} \cup {schema}

\* schemaStore.delete
SchemaDelete(tbl, name) == {s \in tbl : s.name # name}

\* recordStore.add with a record that carries its id: put replaces the entry of that id
RecordPut(tbl, rec) == {r \in tbl : r.id # rec.id} \cup {rec}

\* faulty variant: the key is one more than the greatest key in the store
GeneratedKey_afterLast(tbl, gen) ==
  IF tbl = {} THEN 1
  ELSE 1 + (CHOOSE i \in {r.id : r \in tbl} : \A r \in tbl : r.id <= i)

\* the key the store's generator (autoIncrement: true) gives a record put without id:
\* the generator's current number, whatever the store holds
GeneratedKey(tbl, gen) == gen

\* faulty variant: the cursor deletes every record it visits
deleteBySchema_all(tbl, schema) == {}

\* faulty variant: the cursor stops after the first record it deletes
deleteBySchema_firstOnly(tbl, schema) ==
  {r \in tbl : r.schema # schema \/ \E q \in tbl : q.schema = schema /\ q.id < r.id}

\* recordStore.deleteBySchema: the cursor deletes every record of the schema
deleteBySchema(tbl, schema) == {r \in tbl : r.schema # schema}

\* faulty variant: the cursor stops after the first record of oldName (no cur.continue())
renameSchema_firstOnly(tbl, oldName, newName) ==
  {IF r.schema = oldName /\ \A q \in tbl : q.schema = oldName => r.id <= q.id
   THEN [r EXCEPT !.schema = newName] ELSE r : r \in tbl}

\* faulty variant: the cursor rewrites nothing (cur.update(v) left out)
renameSchema_noUpdate(tbl, oldName, newName) == tbl

\* recordStore.renameSchema: the cursor rewrites the schema field of every record of oldName
renameSchema(tbl, oldName, newName) ==
  {IF r.schema = oldName THEN [r EXCEPT !.schema = newName] ELSE r : r \in tbl}

\* faulty variant: a record that a stored value points at is not deleted
RecordDelete_unlessReferenced(tbl, id) ==
  IF \E r \in tbl : \E i \in 1..Len(r.data) : LooseEq(id, r.data[i].v)
  THEN tbl
  ELSE {r \in tbl : r.id # id}

\* objectStore.delete(id) of deleteRecordById
RecordDelete(tbl, id) == {r \in tbl : r.id # id}

\* How a readwrite transaction can end: oncomplete resolves the promise; on an error
\* the transaction is rolled back and the promise is rejected or never settled.
TxResults == {"complete", "error"}

\* faulty variant: the failure is swallowed and the handler goes on
AwaitContinues_always(result) == TRUE

\* `await p` lets the handler go on only when p was resolved
AwaitContinues(result) == result = "complete"

(***************************************************************************)
(* Sorting for display                                                     *)
(***************************************************************************)
\* schemas.sort((a, b) => a.name.localeCompare(b.name))
RECURSIVE SortByName(_)
SortByName(tbl) ==
  IF tbl = {} THEN <<>>
  ELSE LET m == CHOOSE s \in tbl : \A t \in tbl : NameRank(s.name) <= NameRank(t.name)
       IN <<m>> \o SortByName(tbl \ {m})

\* recordStore.all() returns the records in key order;
\* recs.sort((a, b) => (b.createdAt || 0) - (a.createdAt || 0)) is stable
RECURSIVE SortByCreatedDesc(_)
SortByCreatedDesc(tbl) ==
  IF tbl = {} THEN <<>>
  ELSE LET m == CHOOSE r \in tbl :
                  \A t \in tbl : \/ r.createdAt > t.createdAt
                                 \/ r.createdAt = t.createdAt /\ r.id <= t.id
       IN <<m>> \o SortByCreatedDesc(tbl \ {m})

(***************************************************************************)
(* schema.js: pure parts                                                   *)
(***************************************************************************)
\* faulty variant: the name is checked in edit mode only
nameTaken_editOnly(existing, name, em, editing) ==
  \E s \in existing : s.name = name /\ em /\ s.name # editing

\* faulty variant: the name is checked in create mode only
nameTaken_createOnly(existing, name, em, editing) ==
  \E s \in existing : s.name = name /\ ~em

\* faulty variant: no stored name is looked at
nameTaken_never(existing, name, em, editing) == FALSE

\* existing.some(s => s.name === name && (!editMode || s.name !== editingSchemaName))
nameTaken(existing, name, em, editing) ==
  \E s \in existing : s.name = name /\ (~em \/ s.name # editing)

\* if (editMode) { if (name !== editingSchemaName) { ...cascade... } }
IsRename(em, editing, name) == em /\ name # editing

\* faulty variant: the answer of the confirm() dialog is not looked at
Confirmed_always(answer) == TRUE

\* if (!confirm(...)) return;   of deleteSchemaFlow and of deleteRecord
Confirmed(answer) == answer

\* faulty variant: the records are deleted whatever the second confirm() answered
CascadeRecords_always(withRecords) == TRUE

\* if (withRecords) await recordStore.deleteBySchema(schemaName)
CascadeRecords(withRecords) == withRecords

(***************************************************************************)
(* records.js: pure parts                                                  *)
(***************************************************************************)
\* new Date(now).toLocaleString()
LocaleString(now) == <<"locale", now>>

\* schema.properties.find(p => p.name === k); NoProp stands for undefined
NoProp == Prop(Null, Null, FALSE, Null)
FindProp(schema, k) ==
  IF \E i \in 1..Len(schema.properties) : schema.properties[i].name = k
  THEN schema.properties[CHOOSE i \in 1..Len(schema.properties) :
                           /\ schema.properties[i].name = k
                           /\ \A j \in 1..(i - 1) : schema.properties[j].name # k]
  ELSE NoProp

\* allSchemas.find(s => s.name === name); NoSchema stands for undefined
FindSchema(allSchemas, name) ==
  IF \E s \in allSchemas : s.name = name
  THEN CHOOSE s \in allSchemas : s.name = name
  ELSE NoSchema

\* the values a field built by buildForm can hold when Save is clicked: a checkbox
\* gives its checked state, a relation picker one of its options (the empty one, or
\* the id of a record of relatedSchema), every other input its text
FieldValues(p, recs, texts) ==
  CASE p.type = "Checkbox" -> {BoolV(TRUE), BoolV(FALSE)}
    [] p.type = "Relation" ->
         {StrV("")} \cup
         (IF p.relatedSchema # Null
          THEN {StrV(IdStr(r.id)) : r \in {x \in recs : x.schema = p.relatedSchema}}
          ELSE {})
    [] OTHER -> {StrV(t) : t \in texts}

\* document.querySelectorAll('#recordForm [data-prop]').forEach(el => data[...] = ...):
\* every data map the form built for `schema` can be collected into
RECURSIVE Collect(_, _, _, _)
Collect(props, recs, texts, data) ==
  IF props = <<>> THEN {data}
  ELSE UNION {Collect(Tail(props), recs, texts, Set(data, Head(props).name, v)) :
                v \in FieldValues(Head(props), recs, texts)}

FormInputs(schema, recs, texts) == Collect(schema.properties, recs, texts, <<>>)

\* The value a field of buildForm(schema, existingData) holds when no field is
\* touched.  A checkbox is checked by !!existingData[p.name].  A text input is given
\* existingData[p.name] unless that is undefined.  A relation picker is given the
\* value while it has the empty option only, which selects nothing; its options are
\* appended once recordStore.all() has answered (loaded), the one with
\* existingData[p.name] == rec.id selected; with no such option the picker's value
\* is ''.
Prefilled(p, existingData, recs, loaded) ==
  LET v == Get(existingData, p.name)
  IN CASE p.type = "Checkbox" -> BoolV(Truthy(v))
       [] p.type = "Relation" ->
            IF /\ loaded /\ p.relatedSchema # Null
               /\ \E rec \in recs : rec.schema = p.relatedSchema /\ LooseEq(rec.id, v)
            THEN StrV(IdStr(CHOOSE i \in {rec.id : rec \in recs} : LooseEq(i, v)))
            ELSE StrV("")
       [] OTHER -> IF v = Undefined THEN StrV("") ELSE StrV(v.str)

\* the data map the Save handler collects from the untouched form
RECURSIVE CollectUntouched(_, _, _, _, _)
CollectUntouched(props, existingData, recs, loaded, data) ==
  IF props = <<>> THEN data
  ELSE CollectUntouched(Tail(props), existingData, recs, loaded,
                        Set(data, Head(props).name,
                            Prefilled(Head(props), existingData, recs, loaded)))

UntouchedForm(schema, existingData, recs, loaded) ==
  CollectUntouched(schema.properties, existingData, recs, loaded, <<>>)

\* !value || value.trim() === ''
IsBlank(v) == ~Truthy(v) \/ (v.tag = "str" /\ Trim(v.str) = "")

\* faulty variant: a checkbox is validated like every other field
IsMissing_noExemption(p, data) == p.isMandatory /\ IsBlank(Get(data, p.name))

\* if (p.isMandatory) { if (p.type !== 'Checkbox' && (!value || value.trim() === '')) ... }
IsMissing(p, data) == p.isMandatory /\ p.type # "Checkbox" /\ IsBlank(Get(data, p.name))

\* the missingFields list of the save handler
missingFields(schema, data) ==
  LET Missing(p) == IsMissing(p, data)
  IN [i \in 1..Len(SelectSeq(schema.properties, Missing)) |->
        SelectSeq(schema.properties, Missing)[i].name]

\* faulty variant: the data map is merged into the previous one,
\* data: { ...target.data, ...data }
SpreadUpdate_merge(target, data, now) ==
  [target EXCEPT !.data =
                   LET New(e) == ~HasKey(target.data, e.k)
                   IN [i \in 1..Len(target.data) |->
                         IF HasKey(data, target.data[i].k)
                         THEN [k |-> target.data[i].k, v |-> Get(data, target.data[i].k)]
                         ELSE target.data[i]] \o SelectSeq(data, New),
                 !.lastEditedTime = LocaleString(now),
                 !.lastEditedBy = "Admin"]

\* faulty variant: the record is stamped as a new one
SpreadUpdate_restamp(target, data, now) ==
  [target EXCEPT !.data = data,
                 !.createdAt = now,
                 !.createdTime = LocaleString(now),
                 !.lastEditedTime = LocaleString(now),
                 !.lastEditedBy = "Admin"]

\* { ...target, ...updatedFields } with updatedFields = { data, lastEditedTime, lastEditedBy }
SpreadUpdate(target, data, now) ==
  [target EXCEPT !.data = data,
                 !.lastEditedTime = LocaleString(now),
                 !.lastEditedBy = "Admin"]

\* faulty variant: the record is not stamped
NewRecord_noStamps(schemaName, data, now) ==
  [id |-> 0, schema |-> schemaName, data |-> data, createdAt |-> 0,
   createdTime |-> <<>>, createdBy |-> "",
   lastEditedTime |-> <<>>, lastEditedBy |-> ""]

\* the record object handed to recordStore.add on create; id 0: no id yet
NewRecord(schemaName, data, now) ==
  [id |-> 0, schema |-> schemaName, data |-> data, createdAt |-> now,
   createdTime |-> LocaleString(now), createdBy |-> "Admin",
   lastEditedTime |-> LocaleString(now), lastEditedBy |-> "Admin"]

\* all.find(r => r.id === id); NoRecord stands for undefined
NoRecord == NewRecord(Null, <<>>, 0)

\* faulty variant: a record that is not found is made up from the id
FindRecord_orNew(all, id) ==
  IF \E r \in all : r.id = id
  THEN CHOOSE r \in all : r.id = id
  ELSE [NoRecord EXCEPT !.id = id]

FindRecord(all, id) ==
  IF \E r \in all : r.id = id
  THEN CHOOSE r \in all : r.id = id
  ELSE NoRecord

\* faulty variant: the first property is not tried
titleProp_noFirst(rec, v) ==
  IF Truthy(Get(rec.data, "Title")) THEN <<Get(rec.data, "Title").str>>
  ELSE <<"Kayit #", v.str>>

\* relatedRecord.data.Title || relatedRecord.data[Object.keys(relatedRecord.data)[0]]
\*   || `Kayit #${v}`   (a text is the sequence of the pieces of its template)
titleProp(rec, v) ==
  IF Truthy(Get(rec.data, "Title")) THEN <<Get(rec.data, "Title").str>>
  ELSE IF Truthy(FirstValue(rec.data)) THEN <<FirstValue(rec.data).str>>
  ELSE <<"Kayit #", v.str>>

\* faulty variant: a lookup miss is not told from a hit
RenderEntry_noMiss(schema, k, v, allRecords) ==
  LET prop == FindProp(schema, k)
  IN IF prop # NoProp /\ prop.type = "Relation" /\ Truthy(v)
     THEN IF \E rec \in allRecords : LooseEq(rec.id, v)
          THEN <<k, ": ">> \o titleProp(CHOOSE rec \in allRecords : LooseEq(rec.id, v), v)
          ELSE <<k, ": ", "Kayit #", v.str>>
     ELSE <<k, ": ", v.str>>

\* one entry of dataEntries in renderRecordTable
RenderEntry(schema, k, v, allRecords) ==
  LET prop == FindProp(schema, k)
  IN IF prop # NoProp /\ prop.type = "Relation" /\ Truthy(v)
     THEN IF \E rec \in allRecords : LooseEq(rec.id, v)
          THEN <<k, ": ">> \o titleProp(CHOOSE rec \in allRecords : LooseEq(rec.id, v), v)
          ELSE <<k, ": ", "Silinmis Kayit (#", v.str, ")">>
     ELSE <<k, ": ", v.str>>

\* dataEntries of the row of record r
RenderRow(r, allSchemas, allRecords) ==
  [i \in 1..Len(r.data) |->
     RenderEntry(FindSchema(allSchemas, r.schema), r.data[i].k, r.data[i].v, allRecords)]

\* renderRecordTable: one row per record, newest first; a row keeps the record r its
\* two buttons are bound to and the dataEntries it shows
renderRecordTable(allSchemas, recs) ==
  LET sorted == SortByCreatedDesc(recs)
  IN [i \in 1..Len(sorted) |->
        [r |-> sorted[i], dataEntries |-> RenderRow(sorted[i], allSchemas, recs)]]

(***************************************************************************)
(* State                                                                   *)
(***************************************************************************)
VARIABLES
  schemas,            \* object store 'schemas' (keyPath name)
  records,            \* object store 'records' (keyPath id, autoIncrement)
  keyGen,             \* the key generator of 'records': the next id it hands out
  clock,              \* Date.now()
  schemasCache,       \* localStorage 'schemasCache'
  schemaRows,         \* the schema objects the rows of #schemaTable were built from
  recordRows,         \* the rows of #recordTable (see renderRecordTable)
  schemaModal,        \* #schemaModal has class show
  recordModal,        \* #recordModal has class show
  schemaEditMode,     \* schema.js: editMode             (see closeSchemaModal)
  editingSchemaName,  \* schema.js: editingSchemaName
  activeSchema,       \* records.js: activeSchema         (see closeRecordModal)
  recordEditMode,     \* records.js: editMode
  editingRecordId,    \* records.js: editingRecordId (0: null)
  saveSchema,         \* the running #btnSaveSchema click handler
  delSchema,          \* the running deleteSchemaFlow
  saveRecord,         \* the running #btnSaveRecord click handler
  delRecord,          \* the running deleteRecord
  impSchemas,         \* the running importSchemas
  saveRecordAgain     \* a second #btnSaveRecord click handler, started while the first
                      \* one awaits its write

dbVars == <<schemas, records, keyGen, clock, schemasCache>>
domVars == <<schemaRows, recordRows, schemaModal, recordModal>>
schemaJsVars == <<schemaEditMode, editingSchemaName>>
recordsJsVars == <<activeSchema, recordEditMode, editingRecordId>>
procVars == <<saveSchema, delSchema, saveRecord, delRecord, impSchemas, saveRecordAgain>>
vars == <<dbVars, domVars, schemaJsVars, recordsJsVars, procVars>>

\* A handler that is not running.  preSchemas and preRecords remember the two
\* tables as they were when the handler was started, outcome how it ended; of the
\* schema save, mode is the branch taken after the nameTaken check and cascade the
\* result of the awaited recordStore.renameSchema; of the two delete flows,
\* confirmed is the answer the user gave to the (first) confirm() dialog.
SaveSchemaIdle ==
  [pc |-> "idle", name |-> Null, properties |-> <<>>, mode |-> "none",
   oldName |-> Null, delName |-> Null, cascade |-> "none",
   outcome |-> "none", preSchemas |-> {}, preRecords |-> {}]
DelSchemaIdle ==
  [pc |-> "idle", schemaName |-> Null, confirmed |-> FALSE, withRecords |-> FALSE,
   outcome |-> "none", preSchemas |-> {}, preRecords |-> {}]
SaveRecordIdle ==
  [pc |-> "idle", mode |-> "none", schema |-> NoSchema, id |-> 0, data |-> <<>>, now |-> 0,
   newRec |-> NewRecord(Null, <<>>, 0), outcome |-> "none",
   preSchemas |-> {}, preRecords |-> {}]
DelRecordIdle ==
  [pc |-> "idle", id |-> 0, confirmed |-> FALSE, outcome |-> "none",
   preSchemas |-> {}, preRecords |-> {}]
ImpSchemasIdle ==
  [pc |-> "idle", list |-> <<>>, outcome |-> "none", preSchemas |-> {}, preRecords |-> {}]

\* the page as first loaded over an empty database
Init ==
  /\ schemas = {}
  /\ records = {}
  /\ keyGen = 1
  /\ clock = 1
  /\ schemasCache = {}
  /\ schemaRows = <<>>
  /\ recordRows = <<>>
  /\ schemaModal = FALSE
  /\ recordModal = FALSE
  /\ schemaEditMode = FALSE
  /\ editingSchemaName = Null
  /\ activeSchema = NoSchema
  /\ recordEditMode = FALSE
  /\ editingRecordId = 0
  /\ saveSchema = SaveSchemaIdle
  /\ delSchema = DelSchemaIdle
  /\ saveRecord = SaveRecordIdle
  /\ delRecord = DelRecordIdle
  /\ impSchemas = ImpSchemasIdle
  /\ saveRecordAgain = SaveRecordIdle

\* closeModal('schemaModal').  editMode and editingSchemaName are read only by the
\* Save handler of the modal, which starts only while the modal is shown, and every
\* openSchemaModal overwrites both: once the modal is hidden and no Save handler is
\* running their values are never read again, and the model forgets them.
closeSchemaModal(running) ==
  /\ schemaModal' = FALSE
  /\ IF running
     THEN UNCHANGED schemaJsVars
     ELSE schemaEditMode' = FALSE /\ editingSchemaName' = Null

\* closeModal('recordModal').  activeSchema, editMode and editingRecordId are read
\* only by the click of #btnSaveRecord, before its first await, and every open of the
\* record modal overwrites the three: hidden, they are forgotten in the same way.
closeRecordModal ==
  /\ recordModal' = FALSE
  /\ activeSchema' = NoSchema
  /\ recordEditMode' = FALSE
  /\ editingRecordId' = 0

\* no handler is in progress
Quiescent ==
  /\ saveSchema.pc = "idle"
  /\ delSchema.pc = "idle"
  /\ saveRecord.pc = "idle"
  /\ delRecord.pc = "idle"
  /\ impSchemas.pc = "idle"
  /\ saveRecordAgain.pc = "idle"

(***************************************************************************)
(* schema.js: the schema modal                                             *)
(***************************************************************************)
\* #btnNewSchema click: openSchemaModal(null)
btnNewSchema ==
  /\ schemaEditMode' = FALSE
  /\ editingSchemaName' = Null
  /\ schemaModal' = TRUE
  /\ UNCHANGED <<dbVars, schemaRows, recordRows, recordModal, recordsJsVars, procVars>>

\* a row's Duzenle button: openSchemaModal(sc), sc the schema the row was built from
openSchemaModal ==
  \E i \in 1..Len(schemaRows) :
    /\ schemaEditMode' = TRUE
    /\ editingSchemaName' = schemaRows[i].name
    /\ schemaModal' = TRUE
    /\ UNCHANGED <<dbVars, schemaRows, recordRows, recordModal, recordsJsVars, procVars>>

\* #btnCloseSchema click
btnCloseSchema ==
  /\ schemaModal
  /\ closeSchemaModal(saveSchema.pc # "idle")
  /\ UNCHANGED <<dbVars, schemaRows, recordRows, recordModal, recordsJsVars, procVars>>

(***************************************************************************)
(* schema.js: #btnSaveSchema click handler                                 *)
(***************************************************************************)
\* the click, up to `await schemaStore.getAll()`
btnSaveSchema(rawNames, rowLists) ==
  /\ schemaModal
  /\ saveSchema.pc = "idle"
  /\ \E raw \in rawNames, rows \in rowLists :
       LET name == Trim(raw)
           properties == NamedRows(rows)
           started == [SaveSchemaIdle EXCEPT !.name = name, !.properties = properties,
                                             !.preSchemas = schemas, !.preRecords = records]
       IN saveSchema' =
            IF name = "" \/ properties = <<>>
            THEN [started EXCEPT !.pc = "done", !.outcome = "rejected"]
            ELSE [started EXCEPT !.pc = "getAll"]
  /\ UNCHANGED <<dbVars, domVars, schemaJsVars, recordsJsVars, delSchema, saveRecord,
                 delRecord, impSchemas, saveRecordAgain>>

\* getAll has answered: the nameTaken check, then the first write is issued
saveSchemaGetAll ==
  /\ saveSchema.pc = "getAll"
  /\ saveSchema' =
       LET mode == IF ~schemaEditMode THEN "create"
                   ELSE IF IsRename(schemaEditMode, editingSchemaName, saveSchema.name)
                   THEN "rename" ELSE "edit"
       IN IF nameTaken(schemas, saveSchema.name, schemaEditMode, editingSchemaName)
          THEN [saveSchema EXCEPT !.pc = "done", !.outcome = "rejected", !.mode = mode]
          ELSE IF IsRename(schemaEditMode, editingSchemaName, saveSchema.name)
          THEN [saveSchema EXCEPT !.pc = "renameSchema", !.mode = mode,
                                  !.oldName = editingSchemaName]
          ELSE [saveSchema EXCEPT !.pc = "put", !.mode = mode]
  /\ UNCHANGED <<dbVars, domVars, schemaJsVars, recordsJsVars, delSchema, saveRecord,
                 delRecord, impSchemas, saveRecordAgain>>

\* await recordStore.renameSchema(editingSchemaName, name), then
\* schemaStore.delete(editingSchemaName) is issued
saveSchemaRename(results) ==
  /\ saveSchema.pc = "renameSchema"
  /\ \E result \in results :
       /\ records' = IF result = "complete"
                     THEN renameSchema(records, saveSchema.oldName, saveSchema.name)
                     ELSE records
       /\ saveSchema' =
            IF AwaitContinues(result)
            THEN [saveSchema EXCEPT !.pc = "delete", !.cascade = result,
                                    !.delName = editingSchemaName]
            ELSE [saveSchema EXCEPT !.pc = "done", !.cascade = result,
                                    !.outcome = "failed"]
  /\ UNCHANGED <<schemas, keyGen, clock, schemasCache, domVars, schemaJsVars, recordsJsVars,
                 delSchema, saveRecord, delRecord, impSchemas, saveRecordAgain>>

\* await schemaStore.delete(editingSchemaName), then the put is issued
saveSchemaDelete(results) ==
  /\ saveSchema.pc = "delete"
  /\ \E result \in results :
       /\ schemas' = IF result = "complete"
                     THEN SchemaDelete(schemas, saveSchema.delName)
                     ELSE schemas
       /\ saveSchema' =
            IF AwaitContinues(result)
            THEN [saveSchema EXCEPT !.pc = "put"]
            ELSE [saveSchema EXCEPT !.pc = "done", !.outcome = "failed"]
  /\ UNCHANGED <<records, keyGen, clock, schemasCache, domVars, schemaJsVars, recordsJsVars,
                 delSchema, saveRecord, delRecord, impSchemas, saveRecordAgain>>

\* await schemaStore.put({ name, properties }), then closeModal('schemaModal')
saveSchemaPut(results) ==
  /\ saveSchema.pc = "put"
  /\ \E result \in results :
       /\ schemas' = IF result = "complete"
                     THEN SchemaPut(schemas, [name |-> saveSchema.name,
                                              properties |-> saveSchema.properties])
                     ELSE schemas
       /\ saveSchema' =
            IF AwaitContinues(result)
            THEN [saveSchema EXCEPT !.pc = "render"]
            ELSE [saveSchema EXCEPT !.pc = "done", !.outcome = "failed"]
       /\ IF AwaitContinues(result)
          THEN closeSchemaModal(FALSE)
          ELSE UNCHANGED <<schemaModal, schemaJsVars>>
  /\ UNCHANGED <<records, keyGen, clock, schemasCache, schemaRows, recordRows, recordModal,
                 recordsJsVars, delSchema, saveRecord, delRecord, impSchemas, saveRecordAgain>>

\* await renderSchemaTable()
saveSchemaRender ==
  /\ saveSchema.pc = "render"
  /\ schemaRows' = SortByName(schemas)
  /\ saveSchema' = [saveSchema EXCEPT !.pc = "done", !.outcome = "ok"]
  /\ UNCHANGED <<dbVars, recordRows, schemaModal, recordModal, schemaJsVars, recordsJsVars,
                 delSchema, saveRecord, delRecord, impSchemas, saveRecordAgain>>

\* the handler's promise is settled (or, after a failure, left behind)
saveSchemaReturn ==
  /\ saveSchema.pc = "done"
  /\ saveSchema' = SaveSchemaIdle
  /\ UNCHANGED <<dbVars, domVars, schemaJsVars, recordsJsVars, delSchema, saveRecord,
                 delRecord, impSchemas, saveRecordAgain>>

(***************************************************************************)
(* schema.js: deleteSchemaFlow                                             *)
(***************************************************************************)
\* a row's Sil button: the two confirm() dialogs, up to `await schemaStore.delete`
deleteSchemaFlow ==
  /\ delSchema.pc = "idle"
  /\ \E i \in 1..Len(schemaRows), confirmed \in BOOLEAN, withRecords \in BOOLEAN :
       LET started == [DelSchemaIdle EXCEPT !.schemaName = schemaRows[i].name,
                                            !.confirmed = confirmed,
                                            !.withRecords = withRecords,
                                            !.preSchemas = schemas, !.preRecords = records]
       IN delSchema' =
            IF ~Confirmed(confirmed)
            THEN [started EXCEPT !.pc = "done", !.outcome = "declined", !.withRecords = FALSE]
            ELSE [started EXCEPT !.pc = "delete"]
  /\ UNCHANGED <<dbVars, domVars, schemaJsVars, recordsJsVars, saveSchema, saveRecord,
                 delRecord, impSchemas, saveRecordAgain>>

\* await schemaStore.delete(schemaName)
delSchemaDelete(results) ==
  /\ delSchema.pc = "delete"
  /\ \E result \in results :
       /\ schemas' = IF result = "complete"
                     THEN SchemaDelete(schemas, delSchema.schemaName)
                     ELSE schemas
       /\ delSchema' =
            IF ~AwaitContinues(result)
            THEN [delSchema EXCEPT !.pc = "done", !.outcome = "failed"]
            ELSE IF CascadeRecords(delSchema.withRecords)
            THEN [delSchema EXCEPT !.pc = "deleteBySchema"]
            ELSE [delSchema EXCEPT !.pc = "renderSchemas"]
  /\ UNCHANGED <<records, keyGen, clock, schemasCache, domVars, schemaJsVars, recordsJsVars,
                 saveSchema, saveRecord, delRecord, impSchemas, saveRecordAgain>>

\* await recordStore.deleteBySchema(schemaName)
delSchemaCascade(results) ==
  /\ delSchema.pc = "deleteBySchema"
  /\ \E result \in results :
       /\ records' = IF result = "complete"
                     THEN deleteBySchema(records, delSchema.schemaName)
                     ELSE records
       /\ delSchema' =
            IF AwaitContinues(result)
            THEN [delSchema EXCEPT !.pc = "renderSchemas"]
            ELSE [delSchema EXCEPT !.pc = "done", !.outcome = "failed"]
  /\ UNCHANGED <<schemas, keyGen, clock, schemasCache, domVars, schemaJsVars, recordsJsVars,
                 saveSchema, saveRecord, delRecord, impSchemas, saveRecordAgain>>

\* await renderSchemaTable()
delSchemaRenderSchemas ==
  /\ delSchema.pc = "renderSchemas"
  /\ schemaRows' = SortByName(schemas)
  /\ delSchema' = [delSchema EXCEPT !.pc = "renderRecords"]
  /\ UNCHANGED <<dbVars, recordRows, schemaModal, recordModal, schemaJsVars, recordsJsVars,
                 saveSchema, saveRecord, delRecord, impSchemas, saveRecordAgain>>

\* await renderRecordTable()
delSchemaRenderRecords ==
  /\ delSchema.pc = "renderRecords"
  /\ recordRows' = renderRecordTable(schemas, records)
  /\ delSchema' = [delSchema EXCEPT !.pc = "done", !.outcome = "ok"]
  /\ UNCHANGED <<dbVars, schemaRows, schemaModal, recordModal, schemaJsVars, recordsJsVars,
                 saveSchema, saveRecord, delRecord, impSchemas, saveRecordAgain>>

delSchemaReturn ==
  /\ delSchema.pc = "done"
  /\ delSchema' = DelSchemaIdle
  /\ UNCHANGED <<dbVars, domVars, schemaJsVars, recordsJsVars, saveSchema, saveRecord,
                 delRecord, impSchemas, saveRecordAgain>>

(***************************************************************************)
(* schema.js: importSchemas                                                *)
(***************************************************************************)
\* An entry of the array in the chosen file: its name and its properties; isArray
\* tells whether properties is an array.  A file that is not the JSON text of an
\* array has isArray FALSE.
ImportEntry(n, props, arr) == [name |-> n, properties |-> props, isArray |-> arr]
ImportFile(arr, list) == [isArray |-> arr, list |-> list]

\* the files the user can choose
ImportFiles ==
  {ImportFile(FALSE, <<>>),
   ImportFile(TRUE, <<ImportEntry("A", <<NoteRow>>, TRUE)>>),
   ImportFile(TRUE, <<ImportEntry("B", <<>>, TRUE)>>),
   ImportFile(TRUE, <<ImportEntry("", <<TitleRow>>, TRUE), ImportEntry("B", <<>>, FALSE)>>),
   ImportFile(TRUE, <<ImportEntry("B", <<TitleRow>>, TRUE), ImportEntry("A", <<TitleRow>>, TRUE)>>)}

\* JSON.stringify of a property: a member whose value is undefined (relatedSchema of
\* a property that is no relation) is left out
JsonProp(p) ==
  IF p.relatedSchema = Null
  THEN [name |-> p.name, type |-> p.type, isMandatory |-> p.isMandatory]
  ELSE [name |-> p.name, type |-> p.type, isMandatory |-> p.isMandatory,
        relatedSchema |-> p.relatedSchema]

\* faulty variant: the relatedSchema member is not read back
ParseProp_noRelation(j) == Prop(j.name, j.type, j.isMandatory, Null)

\* JSON.parse of a property: a member that is left out reads as undefined
ParseProp(j) ==
  Prop(j.name, j.type, j.isMandatory,
       IF "relatedSchema" \in DOMAIN j THEN j.relatedSchema ELSE Null)

\* exportSchemas: JSON.stringify(await schemaStore.getAll()), the text of schemas.json;
\* getAll answers in key order
exportSchemas(tbl) ==
  LET list == SortByName(tbl)
  IN [i \in 1..Len(list) |->
        [name |-> list[i].name,
         properties |-> [k \in 1..Len(list[i].properties) |->
                           JsonProp(list[i].properties[k])]]]

\* JSON.parse(text) of importSchemas for a text written by exportSchemas
ExportedFile(text) ==
  ImportFile(TRUE, [i \in 1..Len(text) |->
                      ImportEntry(text[i].name,
                                  [k \in 1..Len(text[i].properties) |->
                                     ParseProp(text[i].properties[k])],
                                  TRUE)])

\* if (sc && sc.name && Array.isArray(sc.properties))
Imported(sc) == sc.name # "" /\ sc.isArray

\* the change event of #fileImportSchemas: the file is read and parsed; the entries the
\* loop skips are left out here
importSchemas(files) ==
  /\ impSchemas.pc = "idle"
  /\ \E file \in files :
       LET started == [ImpSchemasIdle EXCEPT !.preSchemas = schemas, !.preRecords = records,
                                             !.list = SelectSeq(file.list, Imported)]
       IN impSchemas' =
            IF ~file.isArray
            THEN [started EXCEPT !.pc = "done", !.outcome = "invalid", !.list = <<>>]
            ELSE IF started.list = <<>>
            THEN [started EXCEPT !.pc = "render"]
            ELSE [started EXCEPT !.pc = "put"]
  /\ UNCHANGED <<dbVars, domVars, schemaJsVars, recordsJsVars, saveSchema, delSchema,
                 saveRecord, delRecord, saveRecordAgain>>

\* await schemaStore.put(sc) of the loop; a failure is caught and alerted
impSchemasPut(results) ==
  /\ impSchemas.pc = "put"
  /\ \E result \in results :
       LET sc == Head(impSchemas.list)
       IN /\ schemas' = IF result = "complete"
                        THEN SchemaPut(schemas, [name |-> sc.name, properties |-> sc.properties])
                        ELSE schemas
          /\ impSchemas' =
               IF ~AwaitContinues(result)
               THEN [impSchemas EXCEPT !.pc = "done", !.outcome = "failed"]
               ELSE IF Tail(impSchemas.list) = <<>>
               THEN [impSchemas EXCEPT !.pc = "render", !.list = <<>>]
               ELSE [impSchemas EXCEPT !.list = Tail(impSchemas.list)]
  /\ UNCHANGED <<records, keyGen, clock, schemasCache, domVars, schemaJsVars, recordsJsVars,
                 saveSchema, delSchema, saveRecord, delRecord, saveRecordAgain>>

\* await renderSchemaTable(), then the alert
impSchemasRender ==
  /\ impSchemas.pc = "render"
  /\ schemaRows' = SortByName(schemas)
  /\ impSchemas' = [impSchemas EXCEPT !.pc = "done", !.outcome = "ok"]
  /\ UNCHANGED <<dbVars, recordRows, schemaModal, recordModal, schemaJsVars, recordsJsVars,
                 saveSchema, delSchema, saveRecord, delRecord, saveRecordAgain>>

impSchemasReturn ==
  /\ impSchemas.pc = "done"
  /\ impSchemas' = ImpSchemasIdle
  /\ UNCHANGED <<dbVars, domVars, schemaJsVars, recordsJsVars, saveSchema, delSchema,
                 saveRecord, delRecord, saveRecordAgain>>

(***************************************************************************)
(* records.js: the record modal                                            *)
(***************************************************************************)
\* a schema row's Kayit Olustur button: openRecordModal(sc)
openRecordModal ==
  \E i \in 1..Len(schemaRows) :
    /\ activeSchema' = schemaRows[i]
    /\ recordEditMode' = FALSE
    /\ editingRecordId' = 0
    /\ recordModal' = TRUE
    /\ UNCHANGED <<dbVars, schemaRows, recordRows, schemaModal, schemaJsVars, procVars>>

\* the schema openRecordModalForEdit builds the form from: the entry of
\* localStorage's schemasCache, else { name: record.schema, properties: [] }
EditSchema(cache, record) ==
  IF \E s \in cache : s.name = record.schema
  THEN CHOOSE s \in cache : s.name = record.schema
  ELSE [name |-> record.schema, properties |-> <<>>]

\* a record row's Duzenle button: openRecordModalForEdit(r)
openRecordModalForEdit ==
  \E i \in 1..Len(recordRows) :
    /\ recordEditMode' = TRUE
    /\ editingRecordId' = recordRows[i].r.id
    /\ activeSchema' = EditSchema(schemasCache, recordRows[i].r)
    /\ recordModal' = TRUE
    /\ UNCHANGED <<dbVars, schemaRows, recordRows, schemaModal, schemaJsVars, procVars>>

\* #btnCloseRecord click
btnCloseRecord ==
  /\ recordModal
  /\ closeRecordModal
  /\ UNCHANGED <<dbVars, schemaRows, recordRows, schemaModal, schemaJsVars, procVars>>

(***************************************************************************)
(* records.js: #btnSaveRecord click handler                                *)
(***************************************************************************)
\* if (missingFields.length > 0) { alert(...); return; }
Rejects(schema, data) == Len(missingFields(schema, data)) > 0

\* faulty variant: the handler always takes the create branch
IsEditSave_never(em, id) == FALSE

\* if (editMode && editingRecordId != null)
IsEditSave(em, id) == em /\ id # 0

\* the click: collect, validate, and up to the first await of the chosen branch
btnSaveRecord(texts, maxClock) ==
  /\ recordModal
  /\ saveRecord.pc = "idle"
  /\ activeSchema # NoSchema
  /\ \E data \in FormInputs(activeSchema, records, texts) :
       LET started == [SaveRecordIdle EXCEPT !.schema = activeSchema, !.data = data,
                                             !.id = editingRecordId,
                                             !.mode = IF IsEditSave(recordEditMode, editingRecordId)
                                                      THEN "edit" ELSE "create",
                                             !.preSchemas = schemas, !.preRecords = records]
       IN IF Rejects(activeSchema, data)
          THEN /\ saveRecord' = [started EXCEPT !.pc = "done", !.outcome = "rejected"]
               /\ clock' = clock
          ELSE /\ clock <= maxClock
               /\ clock' = clock + 1
               /\ saveRecord' =
                    IF IsEditSave(recordEditMode, editingRecordId)
                    THEN [started EXCEPT !.pc = "getAll", !.now = clock]
                    ELSE [started EXCEPT !.pc = "add", !.now = clock,
                                         !.newRec = NewRecord(activeSchema.name, data, clock)]
  /\ UNCHANGED <<schemas, records, keyGen, schemasCache, domVars, schemaJsVars, recordsJsVars,
                 saveSchema, delSchema, delRecord, impSchemas, saveRecordAgain>>

\* updateRecord: recordStore.all() has answered; all.find(r => r.id === id)
saveRecordGetAll ==
  /\ saveRecord.pc = "getAll"
  /\ IF FindRecord(records, saveRecord.id) # NoRecord
     THEN /\ saveRecord' =
               [saveRecord EXCEPT !.pc = "put",
                  !.newRec = SpreadUpdate(FindRecord(records, saveRecord.id),
                                          saveRecord.data, saveRecord.now)]
          /\ UNCHANGED <<recordModal, recordsJsVars>>
     ELSE \* alert('Kayit bulunamadi'); updateRecord returns and the handler goes on
          /\ saveRecord' = [saveRecord EXCEPT !.pc = "render", !.outcome = "notfound"]
          /\ closeRecordModal
  /\ UNCHANGED <<dbVars, schemaRows, recordRows, schemaModal, schemaJsVars,
                 saveSchema, delSchema, delRecord, impSchemas, saveRecordAgain>>

\* await recordStore.add(newRec) of updateRecord, then closeModal('recordModal')
saveRecordPut(results) ==
  /\ saveRecord.pc = "put"
  /\ \E result \in results :
       /\ records' = IF result = "complete" THEN RecordPut(records, saveRecord.newRec)
                     ELSE records
       /\ saveRecord' =
            IF AwaitContinues(result)
            THEN [saveRecord EXCEPT !.pc = "render", !.outcome = "ok"]
            ELSE [saveRecord EXCEPT !.pc = "done", !.outcome = "failed"]
       /\ IF AwaitContinues(result)
          THEN closeRecordModal
          ELSE UNCHANGED <<recordModal, recordsJsVars>>
  /\ UNCHANGED <<schemas, keyGen, clock, schemasCache, schemaRows, recordRows, schemaModal,
                 schemaJsVars, saveSchema, delSchema, delRecord, impSchemas, saveRecordAgain>>

\* await recordStore.add({ schema, data, createdAt, ... }): the key generator gives the id
saveRecordAdd(results) ==
  /\ saveRecord.pc = "add"
  /\ \E result \in results :
       /\ records' = IF result = "complete"
                     THEN RecordPut(records, [saveRecord.newRec EXCEPT
                                                !.id = GeneratedKey(records, keyGen)])
                     ELSE records
       /\ keyGen' = IF result = "complete" THEN keyGen + 1 ELSE keyGen
       /\ saveRecord' =
            IF AwaitContinues(result)
            THEN [saveRecord EXCEPT !.pc = "render", !.outcome = "ok",
                                    !.id = GeneratedKey(records, keyGen)]
            ELSE [saveRecord EXCEPT !.pc = "done", !.outcome = "failed"]
       /\ IF AwaitContinues(result)
          THEN closeRecordModal
          ELSE UNCHANGED <<recordModal, recordsJsVars>>
  /\ UNCHANGED <<schemas, clock, schemasCache, schemaRows, recordRows, schemaModal,
                 schemaJsVars, saveSchema, delSchema, delRecord, impSchemas, saveRecordAgain>>

\* await renderRecordTable()
saveRecordRender ==
  /\ saveRecord.pc = "render"
  /\ recordRows' = renderRecordTable(schemas, records)
  /\ saveRecord' = [saveRecord EXCEPT !.pc = "done"]
  /\ UNCHANGED <<dbVars, schemaRows, schemaModal, recordModal, schemaJsVars, recordsJsVars,
                 saveSchema, delSchema, delRecord, impSchemas, saveRecordAgain>>

saveRecordReturn ==
  /\ saveRecord.pc = "done"
  /\ saveRecord' = SaveRecordIdle
  /\ UNCHANGED <<dbVars, domVars, schemaJsVars, recordsJsVars, saveSchema, delSchema,
                 delRecord, impSchemas, saveRecordAgain>>

(***************************************************************************)
(* records.js: #btnSaveRecord clicked again.  The button stays enabled and *)
(* the modal shown until the awaited write of the first click has          *)
(* completed; a second click in between starts a second run of the same    *)
(* handler over the same form.                                             *)
(***************************************************************************)
\* the second click on the create form, up to `await recordStore.add(...)`: the form
\* is as it was at the first click, so the same map is collected and accepted
btnSaveRecordAgain(maxClock) ==
  /\ recordModal
  /\ saveRecord.pc = "add"
  /\ saveRecordAgain.pc = "idle"
  /\ activeSchema # NoSchema
  /\ ~IsEditSave(recordEditMode, editingRecordId)
  /\ ~Rejects(activeSchema, saveRecord.data)
  /\ clock <= maxClock
  /\ clock' = clock + 1
  /\ saveRecordAgain' =
       [SaveRecordIdle EXCEPT !.pc = "add", !.mode = "create", !.schema = activeSchema,
                              !.data = saveRecord.data, !.now = clock,
                              !.newRec = NewRecord(activeSchema.name, saveRecord.data, clock),
                              !.preSchemas = schemas, !.preRecords = records]
  /\ UNCHANGED <<schemas, records, keyGen, schemasCache, domVars, schemaJsVars, recordsJsVars,
                 saveSchema, delSchema, saveRecord, delRecord, impSchemas>>

\* await recordStore.add(...) of the second run; its transaction was created after the
\* one of the first run and ends after it
saveRecordAgainAdd(results) ==
  /\ saveRecordAgain.pc = "add"
  /\ saveRecord.pc # "add"
  /\ \E result \in results :
       /\ records' = IF result = "complete"
                     THEN RecordPut(records, [saveRecordAgain.newRec EXCEPT
                                                !.id = GeneratedKey(records, keyGen)])
                     ELSE records
       /\ keyGen' = IF result = "complete" THEN keyGen + 1 ELSE keyGen
       /\ saveRecordAgain' =
            IF AwaitContinues(result)
            THEN [saveRecordAgain EXCEPT !.pc = "render", !.outcome = "ok",
                                         !.id = GeneratedKey(records, keyGen)]
            ELSE [saveRecordAgain EXCEPT !.pc = "done", !.outcome = "failed"]
       /\ IF AwaitContinues(result)
          THEN closeRecordModal
          ELSE UNCHANGED <<recordModal, recordsJsVars>>
  /\ UNCHANGED <<schemas, clock, schemasCache, schemaRows, recordRows, schemaModal,
                 schemaJsVars, saveSchema, delSchema, saveRecord, delRecord, impSchemas>>

\* await renderRecordTable() of the second run
saveRecordAgainRender ==
  /\ saveRecordAgain.pc = "render"
  /\ recordRows' = renderRecordTable(schemas, records)
  /\ saveRecordAgain' = [saveRecordAgain EXCEPT !.pc = "done"]
  /\ UNCHANGED <<dbVars, schemaRows, schemaModal, recordModal, schemaJsVars, recordsJsVars,
                 saveSchema, delSchema, saveRecord, delRecord, impSchemas>>

saveRecordAgainReturn ==
  /\ saveRecordAgain.pc = "done"
  /\ saveRecordAgain' = SaveRecordIdle
  /\ UNCHANGED <<dbVars, domVars, schemaJsVars, recordsJsVars, saveSchema, delSchema,
                 saveRecord, delRecord, impSchemas>>

(***************************************************************************)
(* records.js: deleteRecord                                                *)
(***************************************************************************)
\* a record row's Sil button: confirm(), up to `await deleteRecordById(id)`
deleteRecord ==
  /\ delRecord.pc = "idle"
  /\ \E i \in 1..Len(recordRows), confirmed \in BOOLEAN :
       LET started == [DelRecordIdle EXCEPT !.id = recordRows[i].r.id,
                                            !.confirmed = confirmed,
                                            !.preSchemas = schemas, !.preRecords = records]
       IN delRecord' =
            IF ~Confirmed(confirmed)
            THEN [started EXCEPT !.pc = "done", !.outcome = "declined"]
            ELSE [started EXCEPT !.pc = "delete"]
  /\ UNCHANGED <<dbVars, domVars, schemaJsVars, recordsJsVars, saveSchema, delSchema,
                 saveRecord, impSchemas, saveRecordAgain>>

\* deleteRecordById: tx.objectStore('records').delete(id).  Its promise has no reject
\* and neither the open request nor the transaction has an error handler: only
\* tx.oncomplete settles it, and after a failure the handler stays suspended at its
\* await ("pending").
delRecordDelete(results) ==
  /\ delRecord.pc = "delete"
  /\ \E result \in results :
       /\ records' = IF result = "complete" THEN RecordDelete(records, delRecord.id)
                     ELSE records
       /\ delRecord' =
            IF AwaitContinues(result)
            THEN [delRecord EXCEPT !.pc = "render"]
            ELSE [delRecord EXCEPT !.pc = "pending"]
  /\ UNCHANGED <<schemas, keyGen, clock, schemasCache, domVars, schemaJsVars, recordsJsVars,
                 saveSchema, delSchema, saveRecord, impSchemas, saveRecordAgain>>

\* await renderRecordTable()
delRecordRender ==
  /\ delRecord.pc = "render"
  /\ recordRows' = renderRecordTable(schemas, records)
  /\ delRecord' = [delRecord EXCEPT !.pc = "done", !.outcome = "ok"]
  /\ UNCHANGED <<dbVars, schemaRows, schemaModal, recordModal, schemaJsVars, recordsJsVars,
                 saveSchema, delSchema, saveRecord, impSchemas, saveRecordAgain>>

\* deleteRecord has returned, or is left suspended for good while the page goes on
delRecordReturn ==
  /\ delRecord.pc \in {"done", "pending"}
  /\ delRecord' = DelRecordIdle
  /\ UNCHANGED <<dbVars, domVars, schemaJsVars, recordsJsVars, saveSchema, delSchema,
                 saveRecord, impSchemas, saveRecordAgain>>

(***************************************************************************)
(* Page load                                                               *)
(***************************************************************************)
\* The page is (re)loaded: the modules start over, the two DOMContentLoaded
\* listeners render both tables and store the schema table in schemasCache.
DOMContentLoaded ==
  /\ schemaRows' = SortByName(schemas)
  /\ recordRows' = renderRecordTable(schemas, records)
  /\ schemasCache' = schemas
  /\ schemaModal' = FALSE
  /\ recordModal' = FALSE
  /\ schemaEditMode' = FALSE
  /\ editingSchemaName' = Null
  /\ activeSchema' = NoSchema
  /\ recordEditMode' = FALSE
  /\ editingRecordId' = 0
  /\ UNCHANGED <<schemas, records, keyGen, clock, procVars>>

(***************************************************************************)
(* A second page                                                           *)
(***************************************************************************)
\* The database is shared by every page of the origin: a second page, showing the
\* same record table, deletes a record (its deleteRecord, confirmed and completed)
\* between two events of this page.
OtherTabDelete ==
  /\ \E r \in records : records' = RecordDelete(records, r.id)
  /\ UNCHANGED <<schemas, keyGen, clock, schemasCache, domVars, schemaJsVars, recordsJsVars,
                 procVars>>

\* The second page renames a stored schema: the Save handler of its schema modal
\* (nameTaken check, recordStore.renameSchema, schemaStore.delete, schemaStore.put with
\* the properties unchanged) runs from its click to its end between two steps of this
\* page.
OtherTabRename(names) ==
  /\ \E old \in schemas, name \in names :
       /\ IsRename(TRUE, old.name, name)
       /\ ~nameTaken(schemas, name, TRUE, old.name)
       /\ records' = renameSchema(records, old.name, name)
       /\ schemas' = SchemaPut(SchemaDelete(schemas, old.name),
                               [name |-> name, properties |-> old.properties])
  /\ UNCHANGED <<keyGen, clock, schemasCache, domVars, schemaJsVars, recordsJsVars, procVars>>

(***************************************************************************)
(* Specifications.  The handlers run one at a time (spec section 5: no     *)
(* parallel execution of conflicting writes): a user event is taken only   *)
(* when no handler is in progress.  A shown modal covers the page: the     *)
(* buttons of the two tables and of the page are clicked only when no      *)
(* modal is shown.                                                         *)
(***************************************************************************)
PageFree == ~schemaModal /\ ~recordModal

Idle == Quiescent /\ PageFree

\* the two steps of the Save handler of the schema modal that only a rename takes
RenameStep(results) ==
  \/ saveSchemaRename(results)
  \/ saveSchemaDelete(results)

\* the steps of a started import
ImportStep(results) ==
  \/ impSchemasPut(results)
  \/ impSchemasRender
  \/ impSchemasReturn

\* the steps of the second run of the record Save handler
SaveAgainStep(results) ==
  \/ saveRecordAgainAdd(results)
  \/ saveRecordAgainRender
  \/ saveRecordAgainReturn

\* the other steps the started handlers take
HandlerStep(results) ==
  \/ saveSchemaGetAll
  \/ saveSchemaPut(results)
  \/ saveSchemaRender
  \/ saveSchemaReturn
  \/ delSchemaDelete(results)
  \/ delSchemaCascade(results)
  \/ delSchemaRenderSchemas
  \/ delSchemaRenderRecords
  \/ delSchemaReturn
  \/ saveRecordGetAll
  \/ saveRecordPut(results)
  \/ saveRecordAdd(results)
  \/ saveRecordRender
  \/ saveRecordReturn
  \/ delRecordDelete(results)
  \/ delRecordRender
  \/ delRecordReturn

\* the user events, with what the user can type
UserEvent(rawNames, rowLists, texts, maxClock) ==
  \/ Idle /\ btnNewSchema
  \/ Idle /\ openSchemaModal
  \/ Quiescent /\ btnCloseSchema
  \/ Quiescent /\ btnSaveSchema(rawNames, rowLists)
  \/ Idle /\ deleteSchemaFlow
  \/ Idle /\ openRecordModal
  \/ Idle /\ openRecordModalForEdit
  \/ Quiescent /\ btnCloseRecord
  \/ Quiescent /\ btnSaveRecord(texts, maxClock)
  \/ Idle /\ deleteRecord

\* Spec, the schema lifecycle: one page session over schemas A and B with a Title
\* or a Note property and their records; every write transaction can fail.
Next ==
  \/ UserEvent(RawNames, {<<TitleRow>>, <<NoteRow>>, <<BlankRow>>}, {"", "x"}, MaxClock)
  \/ RenameStep(TxResults)
  \/ HandlerStep(TxResults)

Spec == Init /\ [][Next]_vars

\* SpecForm, the record form: one schema A, edited and reloaded at will, and its
\* records; every write transaction can fail.  With one name to type no save of the
\* schema modal is a rename, and the handler never reaches the steps of RenameStep.
NextForm ==
  \/ UserEvent({"A"}, {<<TitleRow>>, <<NoteRow>>}, TextInputs, MaxClock)
  \/ HandlerStep(TxResults)
  \/ Idle /\ DOMContentLoaded

SpecForm == Init /\ [][NextForm]_vars

\* SpecRelation, the relation labels: one page session over schemas A and B with a
\* Title, a Note or a Ref (relation to A) property; the transactions complete.
NextRelation ==
  \/ UserEvent({"A", "B"}, {<<TitleRow>>, <<NoteRow>>, <<RefRow>>}, {"", "x"}, MaxClock)
  \/ RenameStep({"complete"})
  \/ HandlerStep({"complete"})

SpecRelation == Init /\ [][NextRelation]_vars

\* SpecTabs, two pages: one schema A with a Title and its records, up to
\* MaxClock + 1 record saves on this page, reloads, and a second page that deletes
\* records; the transactions complete.
NextTabs ==
  \/ UserEvent({"A"}, {<<TitleRow>>}, {"", "x"}, MaxClock + 1)
  \/ HandlerStep({"complete"})
  \/ Idle /\ DOMContentLoaded
  \/ Quiescent /\ OtherTabDelete

SpecTabs == Init /\ [][NextTabs]_vars

\* SpecImport, the schema table with imports: schemas A and B, stored by the schema
\* modal (A, with a Title) or imported from a file, and their records; every write
\* transaction can fail.
NextImport ==
  \/ UserEvent({"A"}, {<<TitleRow>>}, {"x"}, MaxClock)
  \/ Idle /\ importSchemas(ImportFiles)
  \/ ImportStep(TxResults)
  \/ RenameStep(TxResults)
  \/ HandlerStep(TxResults)

SpecImport == Init /\ [][NextImport]_vars

\* SpecLive, the handlers under the event loop: one schema A with a Title and its
\* records; every write transaction can fail; a handler that can take a step
\* eventually takes one (the event loop runs every callback that is due).
NextLive ==
  \/ UserEvent({"A"}, {<<TitleRow>>}, {"x"}, MaxClock)
  \/ HandlerStep(TxResults)

SpecLive == Init /\ [][NextLive]_vars /\ WF_vars(HandlerStep(TxResults))

\* SpecDouble, the Save button of the create form clicked twice: one schema A with a
\* Title and its records; every write transaction can fail.
NextDouble ==
  \/ UserEvent({"A"}, {<<TitleRow>>}, {"x"}, MaxClock)
  \/ HandlerStep(TxResults)
  \/ btnSaveRecordAgain(MaxClock)
  \/ SaveAgainStep(TxResults)

SpecDouble == Init /\ [][NextDouble]_vars

\* SpecOverlap, a record edit-save overlapped by a rename: one schema, A or B, with a
\* Title and its records on this page; a second page renames the schema while the
\* edit-save of this page awaits its read or its write; the transactions complete.
NextOverlap ==
  \/ UserEvent({"A"}, {<<TitleRow>>}, {"x"}, MaxClock)
  \/ RenameStep({"complete"})
  \/ HandlerStep({"complete"})
  \/ Idle /\ DOMContentLoaded
  \/ saveRecord.pc \in {"getAll", "put"} /\ OtherTabRename({"A", "B"})

SpecOverlap == Init /\ [][NextOverlap]_vars

\* the user answers the second confirm() of every schema delete with OK
CascadeEnabled == delSchema'.pc = "delete" => delSchema'.withRecords

\* SpecCascade, referential integrity at rest: one page session over schemas A and B
\* with a Title or a Note and their records; every schema delete cascades to the
\* records; the transactions complete.
NextCascade ==
  \/ UserEvent({"A", "B"}, {<<TitleRow>>, <<NoteRow>>}, {"x"}, MaxClock) /\ CascadeEnabled
  \/ RenameStep({"complete"})
  \/ HandlerStep({"complete"})

SpecCascade == Init /\ [][NextCascade]_vars

\* SpecExport, export and import: schemas A and B with a Title or a Ref and their
\* records; the file the user imports is the one exportSchemas has just written from
\* the schema table; a put of the import can fail, the other transactions complete.
NextExport ==
  \/ UserEvent({"A", "B"}, {<<TitleRow>>, <<RefRow>>}, {"x"}, MaxClock)
  \/ Idle /\ importSchemas({ExportedFile(exportSchemas(schemas))})
  \/ ImportStep(TxResults)
  \/ RenameStep({"complete"})
  \/ HandlerStep({"complete"})

SpecExport == Init /\ [][NextExport]_vars

\* SpecCheckbox, the checkbox field: one schema A with a mandatory Done checkbox,
\* alone or after a Title, edited and reloaded at will, and its records; the
\* transactions complete.
NextCheckbox ==
  \/ UserEvent({"A"}, {<<DoneRow>>, <<TitleRow, DoneRow>>}, {"", "x"}, MaxClock)
  \/ HandlerStep({"complete"})
  \/ Idle /\ DOMContentLoaded

SpecCheckbox == Init /\ [][NextCheckbox]_vars

\* SpecPicker, the relation picker of the record form: one schema A with a Title,
\* alone or followed by a Ref (relation to A itself), edited and reloaded at will,
\* and its records, up to MaxClock + 1 record saves; the transactions complete.
NextPicker ==
  \/ UserEvent({"A"}, {<<TitleRow>>, <<TitleRow, RefRow>>}, {"x"}, MaxClock + 1)
  \/ HandlerStep({"complete"})
  \/ Idle /\ DOMContentLoaded

SpecPicker == Init /\ [][NextPicker]_vars

(***************************************************************************)
(* Properties of the schema lifecycle (Spec)                               *)
(***************************************************************************)
\* C1: when the save of a rename has completed successfully, no record has the old
\* name, every record that had the old name when Save was clicked is the same record
\* under the new name, and the schema table has the new name and not the old one.
C1_RenameCascadeComplete ==
  (saveSchema.pc = "done" /\ saveSchema.outcome = "ok" /\ saveSchema.mode = "rename") =>
    /\ \A r \in records : r.schema # saveSchema.oldName
    /\ \A p \in saveSchema.preRecords :
         p.schema = saveSchema.oldName => [p EXCEPT !.schema = saveSchema.name] \in records
    /\ \E s \in schemas : s.name = saveSchema.name
    /\ \A s \in schemas : s.name # saveSchema.oldName

\* a rename of a schema with two records has completed
C1_RenamedTwoRecords ==
  /\ saveSchema.pc = "done" /\ saveSchema.outcome = "ok" /\ saveSchema.mode = "rename"
  /\ \E p, q \in saveSchema.preRecords :
       p.id # q.id /\ p.schema = saveSchema.oldName /\ q.schema = saveSchema.oldName

\* C3: the save of a new schema whose name is the name of a stored schema is
\* rejected, the schema table is left as it was, and it holds one schema of that name.
C3_DuplicateCreateFails ==
  (/\ saveSchema.pc = "done" /\ saveSchema.mode = "create"
   /\ \E s \in saveSchema.preSchemas : s.name = saveSchema.name) =>
    /\ saveSchema.outcome = "rejected"
    /\ schemas = saveSchema.preSchemas
    /\ Cardinality({s \in schemas : s.name = saveSchema.name}) = 1

\* a new schema was saved under the name of a stored schema with other properties
C3_DuplicateCreateTried ==
  /\ saveSchema.pc = "done" /\ saveSchema.mode = "create"
  /\ \E s \in saveSchema.preSchemas :
       s.name = saveSchema.name /\ s.properties # saveSchema.properties

\* C4: when a delete flow confirmed with the record cascade has completed, the schema
\* table has no entry of the deleted name, no record of that name is left, and the
\* records of every other schema are the ones stored before, unchanged.
C4_DeleteWithCascade ==
  (delSchema.pc = "done" /\ delSchema.outcome = "ok" /\ delSchema.withRecords) =>
    /\ \A s \in schemas : s.name # delSchema.schemaName
    /\ \A r \in records : r.schema # delSchema.schemaName
    /\ records = {r \in delSchema.preRecords : r.schema # delSchema.schemaName}

\* a cascading delete has completed over records of the deleted and of another schema
C4_CascadeWithBystander ==
  /\ delSchema.pc = "done" /\ delSchema.outcome = "ok" /\ delSchema.withRecords
  /\ \E s \in delSchema.preSchemas : s.name = delSchema.schemaName
  /\ \E p, q \in delSchema.preRecords :
       p.schema = delSchema.schemaName /\ q.schema # delSchema.schemaName

\* C5: when a delete flow confirmed without the record cascade has completed, the
\* schema entry is gone and the record table is exactly the one stored before.
C5_DeleteWithoutCascade ==
  (delSchema.pc = "done" /\ delSchema.outcome = "ok" /\ ~delSchema.withRecords) =>
    /\ \A s \in schemas : s.name # delSchema.schemaName
    /\ records = delSchema.preRecords

\* a delete without cascade has completed and left records of the deleted schema
C5_OrphansLeft ==
  /\ delSchema.pc = "done" /\ delSchema.outcome = "ok" /\ ~delSchema.withRecords
  /\ \E s \in delSchema.preSchemas : s.name = delSchema.schemaName
  /\ \E r \in records : r.schema = delSchema.schemaName

\* C9: once the record-level rename of a schema save has failed, the entry of the
\* old name that was stored when Save was clicked stays in the schema table.
C9_FailedCascadeKeepsOldEntry ==
  saveSchema.cascade = "error" =>
    \A s \in saveSchema.preSchemas : s.name = saveSchema.oldName => s \in schemas

\* the record-level rename of a stored schema with a record has failed
C9_CascadeFailed ==
  /\ saveSchema.cascade = "error"
  /\ \E s \in saveSchema.preSchemas : s.name = saveSchema.oldName
  /\ \E r \in records : r.schema = saveSchema.oldName

\* C10 as stated: at every step of a rename of a stored schema, each record that had
\* the old name when Save was clicked references a name that is in the schema table.
C10_NoOrphanWindow ==
  (/\ saveSchema.mode = "rename"
   /\ saveSchema.pc \in {"renameSchema", "delete", "put", "render", "done"}
   /\ \E s \in saveSchema.preSchemas : s.name = saveSchema.oldName) =>
    \A p \in saveSchema.preRecords : p.schema = saveSchema.oldName =>
      \A r \in records : r.id = p.id => \E s \in schemas : s.name = r.schema

\* C10: during a rename of a stored schema the old entry is still in the schema table
\* while the record-level rename is awaited, and once the old entry is gone no
\* record references the old name.
C10_CascadeBeforeRemoval ==
  (/\ saveSchema.mode = "rename"
   /\ saveSchema.pc \in {"renameSchema", "delete", "put", "render", "done"}
   /\ \E s \in saveSchema.preSchemas : s.name = saveSchema.oldName) =>
    /\ saveSchema.pc = "renameSchema" =>
         \E s \in schemas : s.name = saveSchema.oldName
    /\ (\A s \in schemas : s.name # saveSchema.oldName) =>
         \A r \in records : r.schema # saveSchema.oldName

\* the old entry is removed, the new one not yet stored, and a renamed record
\* references the new name
C10_BetweenDeleteAndPut ==
  /\ saveSchema.mode = "rename" /\ saveSchema.pc = "put"
  /\ \A s \in schemas : s.name # saveSchema.oldName /\ s.name # saveSchema.name
  /\ \E p \in saveSchema.preRecords :
       /\ p.schema = saveSchema.oldName
       /\ [p EXCEPT !.schema = saveSchema.name] \in records

\* C22: a schema delete flow whose confirmation the user declined has ended with the
\* schema table and the record table as they were when Sil was clicked; a record
\* delete whose confirmation the user declined has ended with both tables as they
\* were, the record of the row still stored.
C22_DeclinedDeletesNothing ==
  /\ (delSchema.pc # "idle" /\ ~delSchema.confirmed) =>
       /\ delSchema.pc = "done" /\ delSchema.outcome = "declined"
       /\ schemas = delSchema.preSchemas
       /\ records = delSchema.preRecords
  /\ (delRecord.pc # "idle" /\ ~delRecord.confirmed) =>
       /\ delRecord.pc = "done" /\ delRecord.outcome = "declined"
       /\ schemas = delRecord.preSchemas
       /\ records = delRecord.preRecords
       /\ \A p \in delRecord.preRecords : p.id = delRecord.id => p \in records

\* the delete of a stored schema that has a record was declined
C22_SchemaDeleteDeclined ==
  /\ delSchema.pc = "done" /\ ~delSchema.confirmed
  /\ \E s \in schemas : s.name = delSchema.schemaName
  /\ \E r \in records : r.schema = delSchema.schemaName

\* C15 as stated: every schema in the schema table has a non-empty properties list.
C15_PropertiesNonEmpty == \A s \in schemas : s.properties # <<>>

\* C16: in every step the stored records have distinct ids; an id that appears in the
\* record table is the generator's number, above every id handed out before, and the
\* generator moves past it; the put of an edit-save and the rename cascade leave the
\* set of stored ids as it was.
C16_IdsUniqueStable ==
  [][LET ids == {r.id : r \in records}
         idsAfter == {r.id : r \in records'}
     IN /\ Cardinality(records') = Cardinality(idsAfter)
        /\ \A r \in records : r.id < keyGen
        /\ keyGen' >= keyGen
        /\ \A i \in idsAfter \ ids : i >= keyGen /\ i < keyGen'
        /\ (saveRecord.pc = "put" \/ saveSchema.pc = "renameSchema") => idsAfter = ids]_vars

\* a record was created after the record created before it was deleted, and a
\* rename cascade has run over it
C16_CreatedAfterDelete ==
  /\ saveSchema.pc = "done" /\ saveSchema.outcome = "ok" /\ saveSchema.mode = "rename"
  /\ keyGen = 3
  /\ \E r \in records : r.id = 2 /\ r.schema = saveSchema.name
  /\ \A r \in records : r.id # 1

\* C18: when a schema edit saved under the same name has completed, the stored entry
\* of that name has exactly the submitted property list, the other entries are as
\* they were, and the record table is the one stored before.
C18_EditReplacesProperties ==
  (saveSchema.pc = "done" /\ saveSchema.outcome = "ok" /\ saveSchema.mode = "edit") =>
    /\ [name |-> saveSchema.name, properties |-> saveSchema.properties] \in schemas
    /\ {s \in schemas : s.name # saveSchema.name} =
         {s \in saveSchema.preSchemas : s.name # saveSchema.name}
    /\ Cardinality({s \in schemas : s.name = saveSchema.name}) = 1
    /\ records = saveSchema.preRecords

\* a schema edit has removed a property whose key a stored record of the schema holds
C18_StaleKeyLeft ==
  /\ saveSchema.pc = "done" /\ saveSchema.outcome = "ok" /\ saveSchema.mode = "edit"
  /\ \E old \in saveSchema.preSchemas, r \in records :
       /\ old.name = saveSchema.name /\ r.schema = saveSchema.name
       /\ \E i \in 1..Len(old.properties) :
            /\ HasKey(r.data, old.properties[i].name)
            /\ FindProp(FindSchema(schemas, r.schema), old.properties[i].name) = NoProp

\* C14: a schema save with an empty trimmed name, with no named property, or with a
\* name that another stored schema has, ends rejected with the schema table and the
\* record table as they were when Save was clicked.
C14_RejectedSaveWritesNothing ==
  (/\ saveSchema.pc \notin {"idle", "getAll"}
   /\ \/ saveSchema.name = ""
      \/ saveSchema.properties = <<>>
      \/ /\ saveSchema.mode \in {"create", "rename"}
         /\ \E s \in saveSchema.preSchemas : s.name = saveSchema.name) =>
    /\ saveSchema.pc = "done" /\ saveSchema.outcome = "rejected"
    /\ schemas = saveSchema.preSchemas
    /\ records = saveSchema.preRecords

\* the rename of a schema with records to the name of another stored schema was
\* rejected
C14_RenameToTakenName ==
  /\ saveSchema.pc = "done" /\ saveSchema.outcome = "rejected"
  /\ saveSchema.mode = "rename"
  /\ \E s \in schemas : s.name = saveSchema.name
  /\ \E r \in records : r.schema = editingSchemaName

\* C27: the save of a schema edit under the name of another stored schema ends
\* rejected: the record table is as it was when Save was clicked, so no record has
\* changed its schema field and the records of the two schemas are the same two
\* sets, and every schema entry, the edited and the other one, is stored as it was.
C27_RenameOntoExistingRejected ==
  (/\ saveSchema.mode = "rename"
   /\ \E s \in saveSchema.preSchemas : s.name = saveSchema.name) =>
    /\ saveSchema.pc = "done" /\ saveSchema.outcome = "rejected"
    /\ records = saveSchema.preRecords
    /\ \A n \in {saveSchema.name, editingSchemaName} :
         {r.id : r \in {q \in records : q.schema = n}} =
           {r.id : r \in {q \in saveSchema.preRecords : q.schema = n}}
    /\ schemas = saveSchema.preSchemas
    /\ \A s \in saveSchema.preSchemas :
         s.name \in {saveSchema.name, editingSchemaName} => s \in schemas

\* the rename of a schema onto another stored schema with other properties was
\* tried, each of the two having a record
C27_TwoSchemasWithRecords ==
  /\ saveSchema.pc = "done" /\ saveSchema.mode = "rename"
  /\ \E s, t \in saveSchema.preSchemas :
       /\ s.name = saveSchema.name /\ t.name = editingSchemaName
       /\ s.properties # t.properties
  /\ \E p, q \in saveSchema.preRecords :
       p.schema = saveSchema.name /\ q.schema = editingSchemaName

(***************************************************************************)
(* Properties of the record form (SpecForm)                                *)
(***************************************************************************)
\* C2 as stated: a submit of the record form, in create or in edit mode, that leaves
\* empty a mandatory property of the stored schema of the record is rejected at the
\* click, and the record table stays the one stored before.
C2_MandatoryRejected ==
  LET stored == FindSchema(saveRecord.preSchemas, saveRecord.schema.name)
  IN (saveRecord.pc # "idle" /\ stored # NoSchema /\ Rejects(stored, saveRecord.data)) =>
       /\ saveRecord.pc = "done" /\ saveRecord.outcome = "rejected"
       /\ records = saveRecord.preRecords

\* C6: when an edit-save has completed, the stored record holds exactly the submitted
\* data map: no key of its previous map that the submission lacks is left.
C6_EditReplacesData ==
  (saveRecord.pc = "done" /\ saveRecord.mode = "edit" /\ saveRecord.outcome = "ok") =>
    \E r \in records :
      /\ r.id = saveRecord.id
      /\ r.data = saveRecord.data
      /\ \A p \in saveRecord.preRecords : p.id = r.id =>
           \A k \in Keys(p.data) \ Keys(saveRecord.data) : ~HasKey(r.data, k)

\* an edit-save has completed whose submission has a key and lacks a key of the
\* previous data map
C6_KeyDropped ==
  /\ saveRecord.pc = "done" /\ saveRecord.mode = "edit" /\ saveRecord.outcome = "ok"
  /\ saveRecord.data # <<>>
  /\ \E p \in saveRecord.preRecords :
       p.id = saveRecord.id /\ Keys(p.data) \ Keys(saveRecord.data) # {}

\* C13 as stated: the schema a shown record form was built from, the schema a submit
\* is validated against, and the schemas the tables were just rendered from are the
\* entries stored in the schema table under their names.
C13_ReadersRefetch ==
  /\ (recordModal /\ \E s \in schemas : s.name = activeSchema.name) =>
       activeSchema \in schemas
  /\ (saveRecord.pc # "idle" /\ \E s \in saveRecord.preSchemas : s.name = saveRecord.schema.name) =>
       saveRecord.schema \in saveRecord.preSchemas
  /\ (saveSchema.pc = "done" /\ saveSchema.outcome = "ok") =>
       schemaRows = SortByName(schemas)
  /\ (saveRecord.pc = "done" /\ saveRecord.outcome = "ok") =>
       \A i \in 1..Len(recordRows) :
         recordRows[i].dataEntries = RenderRow(recordRows[i].r, schemas, records)

\* C20: when a create-submit has completed, the record table is the one stored before
\* plus one record: its schema is the name of the form's schema, its data the
\* collected map, its createdAt the time of the click, and its createdTime,
\* createdBy, lastEditedTime and lastEditedBy are not empty.
C20_CreateStoresOneRecord ==
  (saveRecord.pc = "done" /\ saveRecord.mode = "create" /\ saveRecord.outcome = "ok") =>
    /\ saveRecord.preRecords \subseteq records
    /\ Cardinality(records \ saveRecord.preRecords) = 1
    /\ \A r \in records \ saveRecord.preRecords :
         /\ r.schema = saveRecord.schema.name
         /\ r.data = saveRecord.data
         /\ r.createdAt = clock - 1
         /\ r.createdTime # <<>> /\ r.lastEditedTime # <<>>
         /\ r.createdBy # "" /\ r.lastEditedBy # ""
         /\ \A p \in saveRecord.preRecords : p.id # r.id

\* a create-submit with a filled field has completed beside a record stored before
C20_CreatedBesideAnother ==
  /\ saveRecord.pc = "done" /\ saveRecord.mode = "create" /\ saveRecord.outcome = "ok"
  /\ saveRecord.preRecords # {}
  /\ \E i \in 1..Len(saveRecord.data) : saveRecord.data[i].v.str = "x"

(***************************************************************************)
(* Properties of the relation labels (SpecRelation).  A handler that has   *)
(* just rendered the record table is at "done" with the two tables as the  *)
(* render read them.                                                       *)
(***************************************************************************)
\* C7: in the record table as just rendered, a Relation field whose value is the id
\* of no stored record is shown as the deleted-record text with that id.
C7_DanglingPlaceholder ==
  (\/ saveRecord.pc = "done" /\ saveRecord.outcome \in {"ok", "notfound"}
   \/ delRecord.pc = "done" /\ delRecord.outcome = "ok"
   \/ delSchema.pc = "done" /\ delSchema.outcome = "ok") =>
    /\ Len(recordRows) = Cardinality(records)
    /\ \A i \in 1..Len(recordRows) :
         LET row == recordRows[i]
             schema == FindSchema(schemas, row.r.schema)
         IN /\ row.r \in records
            /\ Len(row.dataEntries) = Len(row.r.data)
            /\ \A j \in 1..Len(row.r.data) :
                 LET k == row.r.data[j].k
                     v == row.r.data[j].v
                 IN (/\ FindProp(schema, k).type = "Relation"
                     /\ v.str # ""
                     /\ \A rec \in records : IdStr(rec.id) # v.str) =>
                      row.dataEntries[j] = <<k, ": ", "Silinmis Kayit (#", v.str, ")">>

\* the record table was rendered after the target of a stored relation was deleted
C7_TargetDeleted ==
  /\ delRecord.pc = "done" /\ delRecord.outcome = "ok"
  /\ \E r \in records : \E j \in 1..Len(r.data) :
       /\ FindProp(FindSchema(schemas, r.schema), r.data[j].k).type = "Relation"
       /\ r.data[j].v = StrV(IdStr(delRecord.id))

\* C17: when a confirmed record delete has completed, the record table is the one
\* stored before without the record of the given id, whatever points at it, and the
\* schema table is as it was.
C17_DeleteRemovesOneRecord ==
  (delRecord.pc = "done" /\ delRecord.outcome = "ok") =>
    /\ records = {r \in delRecord.preRecords : r.id # delRecord.id}
    /\ schemas = delRecord.preSchemas

\* a record was deleted that a Relation field of another record points at, and that
\* record is stored as before
C17_ReferencedRecordDeleted ==
  /\ delRecord.pc = "done" /\ delRecord.outcome = "ok"
  /\ \E q \in delRecord.preRecords : q.id = delRecord.id
  /\ \E r \in records \cap delRecord.preRecords : \E j \in 1..Len(r.data) :
       /\ FindProp(FindSchema(schemas, r.schema), r.data[j].k).type = "Relation"
       /\ r.data[j].v.str = IdStr(delRecord.id)

\* C8: in the record table as just rendered, a Relation field whose value is the id
\* of a stored record is shown with the target's Title when it has a non-empty one,
\* else with the non-empty value of the first property of the target's data, else
\* with the fallback text that carries the target's id.
C8_RelationLabel ==
  (\/ saveRecord.pc = "done" /\ saveRecord.outcome \in {"ok", "notfound"}
   \/ delRecord.pc = "done" /\ delRecord.outcome = "ok"
   \/ delSchema.pc = "done" /\ delSchema.outcome = "ok") =>
    \A i \in 1..Len(recordRows) :
      LET row == recordRows[i]
          schema == FindSchema(schemas, row.r.schema)
      IN \A j \in 1..Len(row.r.data) : \A target \in records :
           LET k == row.r.data[j].k
               v == row.r.data[j].v
               title == Get(target.data, "Title")
           IN (FindProp(schema, k).type = "Relation" /\ v.str = IdStr(target.id)) =>
                row.dataEntries[j] =
                  IF title.tag = "str" /\ title.str # ""
                  THEN <<k, ": ", title.str>>
                  ELSE IF target.data # <<>> /\ target.data[1].v.str # ""
                  THEN <<k, ": ", target.data[1].v.str>>
                  ELSE <<k, ": ", "Kayit #", IdStr(target.id)>>

\* the table was rendered with a relation to a target that has no Title and is
\* labelled by its first property
C8_FirstPropertyLabel ==
  /\ saveRecord.pc = "done" /\ saveRecord.outcome = "ok"
  /\ \E r, target \in records : \E j \in 1..Len(r.data) :
       /\ FindProp(FindSchema(schemas, r.schema), r.data[j].k).type = "Relation"
       /\ r.data[j].v = StrV(IdStr(target.id))
       /\ ~HasKey(target.data, "Title")
       /\ target.data # <<>> /\ target.data[1].v.str # ""

\* C28 as stated: in the record table as just rendered, a Relation field whose value
\* is the id of a stored record of a schema other than the property's relatedSchema
\* is not shown with that record's label.
C28_LabelFromRelatedSchema ==
  (\/ saveRecord.pc = "done" /\ saveRecord.outcome \in {"ok", "notfound"}
   \/ delRecord.pc = "done" /\ delRecord.outcome = "ok"
   \/ delSchema.pc = "done" /\ delSchema.outcome = "ok") =>
    \A i \in 1..Len(recordRows) :
      LET row == recordRows[i]
          schema == FindSchema(schemas, row.r.schema)
      IN \A j \in 1..Len(row.r.data) : \A target \in records :
           LET k == row.r.data[j].k
               v == row.r.data[j].v
               prop == FindProp(schema, k)
           IN (/\ prop.type = "Relation" /\ v.str = IdStr(target.id)
               /\ target.schema # prop.relatedSchema) =>
                row.dataEntries[j] # <<k, ": ">> \o titleProp(target, v)

(***************************************************************************)
(* Properties of the record table with a second page (SpecTabs)            *)
(***************************************************************************)
\* C11: when an edit-save has completed, the record is stored under the same id with
\* the createdAt, createdTime, createdBy and schema it had; its data is the submitted
\* map, its lastEditedTime and lastEditedBy are those of the save; every other record
\* is as it was.
C11_EditKeepsProvenance ==
  (saveRecord.pc = "done" /\ saveRecord.mode = "edit" /\ saveRecord.outcome = "ok") =>
    \E p \in saveRecord.preRecords, r \in records :
      /\ p.id = saveRecord.id /\ r.id = p.id
      /\ r.createdAt = p.createdAt /\ r.createdTime = p.createdTime
      /\ r.createdBy = p.createdBy /\ r.schema = p.schema
      /\ r.data = saveRecord.data
      /\ r.lastEditedTime = LocaleString(saveRecord.now) /\ r.lastEditedBy = "Admin"
      /\ records \ {r} = saveRecord.preRecords \ {p}

\* an edit-save of a record created at an earlier time has completed beside another
\* record
C11_EditedBesideAnother ==
  /\ saveRecord.pc = "done" /\ saveRecord.mode = "edit" /\ saveRecord.outcome = "ok"
  /\ \E p, q \in saveRecord.preRecords :
       /\ p.id = saveRecord.id /\ q.id # p.id
       /\ p.createdAt # saveRecord.now
       /\ p.lastEditedTime # LocaleString(saveRecord.now)

\* C12: an accepted edit-save whose target id was not in the record table when Save
\* was clicked ends with the not-found message and leaves the record table as it was:
\* nothing is written and the record is not created again.
C12_MissingTargetNoWrite ==
  (/\ saveRecord.mode = "edit" /\ saveRecord.outcome # "rejected"
   /\ saveRecord.pc \in {"put", "render", "done"}
   /\ \A p \in saveRecord.preRecords : p.id # saveRecord.id) =>
    /\ saveRecord.outcome = "notfound"
    /\ records = saveRecord.preRecords
    /\ \A r \in records : r.id # saveRecord.id

\* the edit-save of a record deleted by the second page has ended, other records
\* being stored
C12_TargetWasDeleted ==
  /\ saveRecord.pc = "done" /\ saveRecord.outcome = "notfound"
  /\ saveRecord.mode = "edit" /\ saveRecord.id # 0
  /\ records # {} /\ records = saveRecord.preRecords

(***************************************************************************)
(* Properties of the checkbox field (SpecCheckbox)                         *)
(***************************************************************************)
\* C21: a submit of a form in which every mandatory field other than a Checkbox is
\* filled is not rejected, whatever the state of its checkboxes; every Checkbox of the
\* form contributes a boolean to the collected map, and once the save has completed
\* the record is stored with that map.
C21_CheckboxExempt ==
  LET props == saveRecord.schema.properties
  IN (/\ saveRecord.pc # "idle"
      /\ \A i \in 1..Len(props) :
           (props[i].isMandatory /\ props[i].type # "Checkbox") =>
             ~IsBlank(Get(saveRecord.data, props[i].name))) =>
       /\ saveRecord.outcome # "rejected"
       /\ \A i \in 1..Len(props) :
            props[i].type = "Checkbox" =>
              Get(saveRecord.data, props[i].name) \in {BoolV(TRUE), BoolV(FALSE)}
       /\ (saveRecord.pc = "done" /\ saveRecord.outcome = "ok") =>
            \E r \in records : r.id = saveRecord.id /\ r.data = saveRecord.data

\* a record was stored from a form with a filled Title and the mandatory Done
\* checkbox left unchecked
C21_UncheckedStored ==
  /\ saveRecord.pc = "done" /\ saveRecord.outcome = "ok"
  /\ FindProp(saveRecord.schema, "Done") = DoneRow
  /\ FindProp(saveRecord.schema, "Title") = TitleRow
  /\ \E r \in records :
       r.id = saveRecord.id /\ Get(r.data, "Done") = BoolV(FALSE)

(***************************************************************************)
(* Properties of export and import (SpecExport)                            *)
(***************************************************************************)
\* C30: at every step of an import of the list just exported from the schema table,
\* and when it has ended, the schema table is the one that was exported (each schema
\* with its name and its property list, none added, none removed) and the record
\* table is as it was.
C30_ExportImportIdentity ==
  impSchemas.pc # "idle" =>
    /\ schemas = impSchemas.preSchemas
    /\ records = impSchemas.preRecords
    /\ \A s \in impSchemas.preSchemas :
         \E t \in schemas : t.name = s.name /\ t.properties = s.properties
    /\ Cardinality(schemas) = Cardinality(impSchemas.preSchemas)

\* the import of an exported table of two schemas, one of them with a relation, has
\* completed beside a stored record
C30_TwoSchemasReimported ==
  /\ impSchemas.pc = "done" /\ impSchemas.outcome = "ok"
  /\ Cardinality(schemas) = 2
  /\ \E s \in schemas : s.properties = <<RefRow>>
  /\ records # {}

C24_OneRecordPerOpening ==
  (saveRecordAgain.pc # "idle" /\ saveRecordAgain.mode = "create") =>
    Cardinality(records \ saveRecordAgain.preRecords) <= 1

(***************************************************************************)
(* Properties of an edit-save overlapped by a rename (SpecOverlap)         *)
(***************************************************************************)
\* C25 as stated: when an edit-save has completed and the schema name its record had
\* when the handler read it was renamed before the handler wrote the record back
\* (the name was in the schema table at the click and is not any more), no record
\* references that name and the edited record references a stored schema.
C25_OverlapKeepsRename ==
  (/\ saveRecord.pc = "done" /\ saveRecord.mode = "edit" /\ saveRecord.outcome = "ok"
   /\ \E s \in saveRecord.preSchemas : s.name = saveRecord.newRec.schema
   /\ \A s \in schemas : s.name # saveRecord.newRec.schema) =>
    /\ \A r \in records : r.schema # saveRecord.newRec.schema
    /\ \A r \in records : r.id = saveRecord.id => \E s \in schemas : s.name = r.schema

(***************************************************************************)
(* Properties of the relation picker (SpecPicker)                          *)
(***************************************************************************)
\* C23 as stated: when an edit-save has completed whose submitted map is the one the
\* untouched form holds, before or after the options of its relation pickers were
\* loaded, the stored record has the data map it had when Save was clicked.
C23_UntouchedEditKeepsData ==
  (saveRecord.pc = "done" /\ saveRecord.mode = "edit" /\ saveRecord.outcome = "ok") =>
    \A p \in saveRecord.preRecords : \A loaded \in BOOLEAN :
      (/\ p.id = saveRecord.id
       /\ saveRecord.data =
            UntouchedForm(saveRecord.schema, p.data, saveRecord.preRecords, loaded)) =>
        \E r \in records : r.id = p.id /\ r.data = p.data

\* C29: in every step, (1) while the record form stays shown activeSchema, editMode and
\* editingRecordId stay as the open that showed it set them: openRecordModal a schema
\* of a schema row, editMode false and no id, openRecordModalForEdit editMode true and
\* the id of a record row; (2) a Save click on the create form takes the add branch
\* and one on the edit form the update branch for that id, unless it is rejected;
\* (3) the write of the add branch keeps every stored record and adds one record
\* under an id no stored record has; (4) the write of the update branch stores a
\* record under the id of the form, leaves every other record as it was and the
\* number of stored records unchanged.
C29_SaveInModeOfOpenForm ==
  [][/\ (recordModal /\ recordModal') => UNCHANGED recordsJsVars
     /\ (~recordModal /\ recordModal') =>
          \/ /\ ~recordEditMode' /\ editingRecordId' = 0
             /\ \E i \in 1..Len(schemaRows) : activeSchema' = schemaRows[i]
          \/ /\ recordEditMode'
             /\ \E i \in 1..Len(recordRows) :
                  /\ editingRecordId' = recordRows[i].r.id
                  /\ activeSchema'.name = recordRows[i].r.schema
     /\ (saveRecord.pc = "idle" /\ saveRecord'.pc # "idle") =>
          \/ saveRecord'.pc = "done" /\ saveRecord'.outcome = "rejected"
          \/ ~recordEditMode /\ saveRecord'.pc = "add"
             /\ saveRecord'.newRec.schema = activeSchema.name
          \/ recordEditMode /\ saveRecord'.pc = "getAll"
             /\ saveRecord'.id = editingRecordId
     /\ (saveRecord.pc = "add" /\ records' # records) =>
          /\ records \subseteq records'
          /\ Cardinality(records') = Cardinality(records) + 1
          /\ \A r \in records' \ records : \A q \in records : q.id # r.id
     /\ (saveRecord.pc = "put" /\ saveRecord'.outcome = "ok") =>
          /\ Cardinality(records') = Cardinality(records)
          /\ \E r \in records' : r.id = saveRecord.id /\ r.data = saveRecord.data
          /\ {r \in records' : r.id # saveRecord.id} = {r \in records : r.id # saveRecord.id}
    ]_vars

\* a create-save has completed after the edit form of an earlier record was saved
C29_CreateAfterEdit ==
  /\ saveRecord.pc = "done" /\ saveRecord.mode = "create" /\ saveRecord.outcome = "ok"
  /\ \E p \in saveRecord.preRecords : p.lastEditedTime # p.createdTime

(***************************************************************************)
(* Properties of the handlers under the event loop (SpecLive)              *)
(***************************************************************************)
\* C19 as stated: a handler that awaits a storage operation eventually goes on with
\* the operation completed or ends with its failure reported.
C19_StoreOpsSettle ==
  /\ (saveSchema.pc \in {"getAll", "put"}) ~> (saveSchema.pc \in {"render", "done"})
  /\ (delSchema.pc \in {"delete", "deleteBySchema"}) ~>
       (delSchema.pc \in {"renderSchemas", "done"})
  /\ (saveRecord.pc \in {"getAll", "add", "put"}) ~> (saveRecord.pc \in {"render", "done"})
  /\ (delRecord.pc = "delete") ~> (delRecord.pc \in {"render", "done"})

====
